---- MODULE Spec2Model ----
(***************************************************************************)
(* Model of src/src/backend/api_server.py: the startup load of the road    *)
(* graph artifact and the /find_path request handler (exclusion pruning,   *)
(* nearest-node resolution, nearest-of-many-targets search).               *)
(*                                                                         *)
(* Coordinates are integers.  Geographic points are <<lon, lat>>, metric   *)
(* points are <<x, y>>.  Distances are compared by their squares, in exact *)
(* arithmetic.  A point with a denominator, [x, y, d], stands for          *)
(* (x/d, y/d): a polygon's centroid is rational.                           *)
(*                                                                         *)
(* Specifications: Spec (one call at a time, any request); SpecExclusion   *)
(* (every polygons list, start point and safe zone fixed); SpecFault (a    *)
(* graph with an edge weight that is not a number); SpecPair (a call, then *)
(* the same request without one short polygon or zone); SpecRepeat (a      *)
(* call, then the same request again); SpecConcurrent (the same request    *)
(* again while a second call runs); SpecOrder (a call, then the same       *)
(* request with its exclusion polygons listed otherwise).                  *)
(*                                                                         *)
(* The archived Flask endpoint api_find_safe_routes of                     *)
(* src/_archive/map_wave/app.py is modelled at the end of the actions,     *)
(* with its own variables and the specification SpecArchive.               *)
(***************************************************************************)
EXTENDS Integers, Sequences, FiniteSets, TLC

\* ------------------------------------------------------------------ bounds
\* Longest `polygons` list of a request.
MaxPolys == 2
\* Longest `safe_zones` list of a request.
MaxZones == 2
\* Archived endpoint: longest `danger_zones` list of a request.
MaxFeatures == 2
\* Archived endpoint: most routes in one reply of the Mapbox Directions API.
MaxRoutes == 2
\* Archived endpoint: most waypoints generate_waypoints_around_danger_zones
\* returns.
MaxWaypoints == 2
\* Archived endpoint: most waypoints filter_road_waypoints leaves to the
\* last-resort search.
MaxExtraWaypoints == 3

\* float('inf'): larger than every distance and path cost of the model.
inf == 1000000000

\* Python's None, for values the model holds as records.
None == [none |-> TRUE]
\* Python's None, for node-valued variables (nodes are strings).
NoNode == "None"

\* ---------------------------------------------------------------- helpers
Min2(a, b) == IF a <= b THEN a ELSE b
Max2(a, b) == IF a >= b THEN a ELSE b
SeqsUpTo(S, n) == UNION {[1..k -> S] : k \in 0..n}
Range(s) == {s[k] : k \in DOMAIN s}

\* ------------------------------------------------- coordinate transformers
\* Transformer.from_crs(SOURCE_CRS, TARGET_CRS).transform: the projection is
\* an external library; it is modelled as an injective map with a scale and a
\* false easting, and its inverse.
transform_to_metric(lon, lat) == <<2 * lon + 10, 2 * lat>>
transform_to_wgs84(x, y) == <<(x - 10) \div 2, y \div 2>>

\* ---------------------------------------------------------------- geometry
\* shapely Point(coords): a metric point, denominator 1.
Point(xy) == [x |-> xy[1], y |-> xy[2], d |-> 1]

\* Vertex k+1 of a ring of n vertices, closing the ring.
NextIdx(k, n) == IF k = n THEN 1 ELSE k + 1

Cross(a, b, p) == (b[1] - a[1]) * (p[2] - a[2]) - (p[1] - a[1]) * (b[2] - a[2])

\* p lies on the closed segment a-b.
OnSegment(p, a, b) ==
    /\ Cross(a, b, p) = 0
    /\ Min2(a[1], b[1]) <= p[1] /\ p[1] <= Max2(a[1], b[1])
    /\ Min2(a[2], b[2]) <= p[2] /\ p[2] <= Max2(a[2], b[2])

\* The edge a-b crosses the horizontal ray from p towards +x.
RayCrosses(p, a, b) ==
    /\ (a[2] > p[2]) # (b[2] > p[2])
    /\ LET c == Cross(a, b, p)
           dy == b[2] - a[2]
       IN  (c > 0 /\ dy > 0) \/ (c < 0 /\ dy < 0)

OnBoundary(poly, p) ==
    \E k \in DOMAIN poly : OnSegment(p, poly[k], poly[NextIdx(k, Len(poly))])

\* shapely Polygon.contains(Point): the point is in the polygon's interior;
\* a point of the boundary is not contained.  poly is a sequence of metric
\* vertices, p a metric <<x, y>>.
Contains(poly, p) ==
    /\ ~OnBoundary(poly, p)
    /\ Cardinality({k \in DOMAIN poly :
                      RayCrosses(p, poly[k], poly[NextIdx(k, Len(poly))])}) % 2 = 1

\* The sums of the centroid formula over the ring's edges k..n: twice the
\* signed area, and the two first moments.
RECURSIVE CentroidSums(_, _)
CentroidSums(poly, k) ==
    IF k > Len(poly) THEN [a |-> 0, x |-> 0, y |-> 0]
    ELSE LET p == poly[k]
             q == poly[NextIdx(k, Len(poly))]
             t == p[1] * q[2] - q[1] * p[2]
             rest == CentroidSums(poly, k + 1)
         IN  [a |-> rest.a + t,
              x |-> rest.x + (p[1] + q[1]) * t,
              y |-> rest.y + (p[2] + q[2]) * t]

\* shapely Polygon.centroid of a polygon of non-zero area: the area-weighted
\* centroid, as a point with denominator 3 * (twice the signed area).
Centroid(poly) ==
    LET s == CentroidSums(poly, 1)
    IN  IF s.a > 0 THEN [x |-> s.x, y |-> s.y, d |-> 3 * s.a]
                   ELSE [x |-> -s.x, y |-> -s.y, d |-> -3 * s.a]

\* point_geom.distance(node_point), squared and scaled by the square of the
\* point's denominator: monotone in the Euclidean distance.
Distance(point, xy) ==
    (point.d * xy[1] - point.x) * (point.d * xy[1] - point.x)
  + (point.d * xy[2] - point.y) * (point.d * xy[2] - point.y)

\* ------------------------------------------------------------------ graphs
\* A networkx graph: a node set and the 'weight' attribute of each
\* (undirected) edge.  triples is a set of <<u, v, weight>>.
Graph(nodes, triples) ==
    [nodes |-> nodes,
     weight |-> [e \in {{t[1], t[2]} : t \in triples} |->
                   (CHOOSE t \in triples : {t[1], t[2]} = e)[3]]]

Edges(G) == DOMAIN G.weight
Neighbors(G, u) == {v \in G.nodes : {u, v} \in Edges(G)}

\* G.remove_nodes_from(nodes): the nodes and their incident edges go.
remove_nodes_from(G, nodes) ==
    [nodes |-> G.nodes \ nodes,
     weight |-> [e \in {f \in Edges(G) : f \cap nodes = {}} |-> G.weight[e]]]

\* Nodes reachable from the set `seen` (breadth-first closure).
RECURSIVE Reach(_, _)
Reach(G, seen) ==
    LET more == seen \cup UNION {Neighbors(G, u) : u \in seen}
    IN  IF more = seen THEN seen ELSE Reach(G, more)

\* Variant: only a direct edge counts as a path.
has_path_adjacent(G, source, target) ==
    source = target \/ target \in Neighbors(G, source)

\* nx.has_path(G, source, target)
has_path(G, source, target) == target \in Reach(G, {source})

\* networkx's Dijkstra search from one source: repeatedly settle the open node
\* of least tentative distance and relax its edges (a strictly smaller
\* distance replaces the old one and records the predecessor).
RECURSIVE Dijkstra(_, _, _, _)
Dijkstra(G, dist, pred, done) ==
    LET open == {n \in G.nodes \ done : dist[n] < inf}
    IN  IF open = {} THEN [dist |-> dist, pred |-> pred]
        ELSE LET u == CHOOSE n \in open : \A m \in open : dist[n] <= dist[m]
                 better == {v \in Neighbors(G, u) \ done :
                              dist[u] + G.weight[{u, v}] < dist[v]}
             IN  Dijkstra(G,
                          [v \in G.nodes |-> IF v \in better
                                             THEN dist[u] + G.weight[{u, v}]
                                             ELSE dist[v]],
                          [v \in G.nodes |-> IF v \in better THEN u ELSE pred[v]],
                          done \cup {u})

DijkstraFrom(G, source) ==
    Dijkstra(G, [v \in G.nodes |-> IF v = source THEN 0 ELSE inf],
             [v \in G.nodes |-> NoNode], {})

\* The greatest weight of a simple path from u to target that avoids seen.
RECURSIVE LongestFrom(_, _, _, _)
LongestFrom(G, u, target, seen) ==
    IF u = target THEN 0
    ELSE LET ws == {G.weight[{u, v}] + LongestFrom(G, v, target, seen \cup {v}) :
                      v \in {n \in Neighbors(G, u) \ seen :
                                target \in Reach([nodes |-> G.nodes \ seen, weight |-> G.weight], {n})}}
         IN  CHOOSE w \in ws : \A x \in ws : w >= x

\* Variant: the greatest weight of a simple path is taken where the least
\* was meant.
shortest_path_length_longest(G, source, target) ==
    LongestFrom(G, source, target, {source})

\* nx.shortest_path_length(G, source, target, weight='weight'), called only
\* when has_path holds.
shortest_path_length(G, source, target) == DijkstraFrom(G, source).dist[target]

RECURSIVE PathBack(_, _, _)
PathBack(pred, source, n) ==
    IF n = source THEN <<source>> ELSE Append(PathBack(pred, source, pred[n]), n)

\* Variant: the path of fewest edges, the weights ignored.
shortest_path_hops(G, source, target) ==
    LET unit == [nodes |-> G.nodes, weight |-> [e \in Edges(G) |-> 1]]
    IN  PathBack(DijkstraFrom(unit, source).pred, source, target)

\* nx.shortest_path(G, source, target, weight='weight'): the node list of a
\* least-weight path, rebuilt from the search's predecessors.
shortest_path(G, source, target) ==
    PathBack(DijkstraFrom(G, source).pred, source, target)

\* An edge 'weight' that is not a number (a string, say).  The search cannot
\* add it to a distance: as a value it is beyond every distance, so that no
\* relaxation of the search above takes such an edge.
NotANumber == inf + 1

\* The nodes with an edge whose weight is not a number.
BadlyWeighted(G) ==
    {n \in G.nodes : \E v \in Neighbors(G, n) : G.weight[{n, v}] = NotANumber}

\* The weighted searches (nx.shortest_path_length, nx.shortest_path) raise a
\* TypeError: the search settles nodes by distance, stops when it settles the
\* target, and adds the weight of every edge of each node it settles before;
\* with source = target no search is made.  Nodes at the target's distance
\* are settled in insertion order, which the model does not hold: they count
\* as settled after it.
SearchRaises(G, source, target) ==
    /\ source # target
    /\ LET dist == DijkstraFrom(G, source).dist
       IN  \E n \in BadlyWeighted(G) \ {target} : dist[n] < dist[target]

\* --------------------------------------------------- node coordinate index
\* node_points: a dict node -> shapely Point, as its items() in insertion
\* order: a sequence of <<node, <<x, y>>>>.
IndexNodes(np) == {it[1] : it \in Range(np.items)}
PointOf(np, node) == (CHOOSE it \in Range(np.items) : it[1] = node)[2]

\* ------------------------------------------------------ nearest-node scan
\* Variant: the membership test is left out.
InView_always(graph, node) == TRUE

\* `node in graph`
InView(graph, node) == node \in graph.nodes

\* Variant: a node at the same distance replaces the one found before.
Closer_orequal(dist, min_dist) == dist <= min_dist

\* `dist < min_dist`
Closer(dist, min_dist) == dist < min_dist

\* The loop of get_nearest_node_api over current_node_points.items(), from
\* item k on, carrying min_dist and nearest_node.
RECURSIVE NearestScan(_, _, _, _, _, _)
NearestScan(graph, point_geom, items, k, min_dist, nearest_node) ==
    IF k > Len(items) THEN nearest_node
    ELSE LET node == items[k][1]
             dist == Distance(point_geom, items[k][2])
         IN  IF InView(graph, node) /\ Closer(dist, min_dist)
             THEN NearestScan(graph, point_geom, items, k + 1, dist, node)
             ELSE NearestScan(graph, point_geom, items, k + 1, min_dist, nearest_node)

\* get_nearest_node_api(graph, point_coords_metric, current_node_points);
\* point_geom is Point(point_coords_metric).
get_nearest_node_api(graph, point_geom, current_node_points) ==
    NearestScan(graph, point_geom, current_node_points.items, 1, inf, NoNode)

\* ------------------------------------------------------- the pickle file
\* The unit-weight square cycle A-B-C-D-A, every node indexed.
SquareGraph ==
    Graph({"A", "B", "C", "D"},
          {<<"A", "B", 1>>, <<"B", "C", 1>>, <<"C", "D", 1>>, <<"D", "A", 1>>})
SquarePoints ==
    [items |-> << <<"A", <<10, 0>> >>, <<"B", <<14, 0>> >>,
                  <<"C", <<14, 4>> >>, <<"D", <<10, 4>> >> >>]

\* The square with a heavy edge D-A and a detour A-E-D through a node E that
\* the index does not know; the index knows a node F that the graph lacks, and
\* lists its nodes in another order.
DetourGraph ==
    Graph({"A", "B", "C", "D", "E"},
          {<<"A", "B", 1>>, <<"B", "C", 1>>, <<"C", "D", 1>>, <<"D", "A", 5>>,
           <<"A", "E", 1>>, <<"E", "D", 1>>})
DetourPoints ==
    [items |-> << <<"F", <<12, 0>> >>, <<"D", <<10, 4>> >>, <<"C", <<14, 4>> >>,
                  <<"B", <<14, 0>> >>, <<"A", <<10, 0>> >> >>]

\* A square whose edge D-A carries a weight that is not a number; no two
\* nodes are at the same distance from a third.
FaultyGraph ==
    Graph({"A", "B", "C", "D"},
          {<<"A", "B", 1>>, <<"B", "C", 2>>, <<"C", "D", 1>>, <<"D", "A", NotANumber>>})

AllKeys == {"graph", "node_points", "original_edges"}

\* What PICKLE_FILENAME holds when the process starts: whether the file
\* exists, whether it unpickles, the keys of the dict and two of its values.
Pickle(exists, readable, keys, graph, node_points) ==
    [exists |-> exists, readable |-> readable, keys |-> keys,
     graph |-> graph, node_points |-> node_points]

Artifacts ==
    { Pickle(TRUE, TRUE, AllKeys, SquareGraph, SquarePoints),
      Pickle(TRUE, TRUE, AllKeys, DetourGraph, DetourPoints),
      Pickle(TRUE, TRUE, AllKeys, SquareGraph, None),
      Pickle(TRUE, TRUE, AllKeys, None, SquarePoints),
      Pickle(TRUE, TRUE, {"graph", "node_points"}, SquareGraph, SquarePoints),
      Pickle(TRUE, FALSE, {}, None, None),
      Pickle(FALSE, FALSE, {}, None, None) }

\* A pickle file whose graph has an edge weight that is not a number.
FaultyArtifacts == { Pickle(TRUE, TRUE, AllKeys, FaultyGraph, SquarePoints) }

\* ------------------------------------------------------------ the requests
\* start_point values, <<longitude, latitude>>: node A, the midpoint of A and
\* B, node C.
StartPoints == { <<0, 0>>, <<1, 0>>, <<2, 2>> }

\* Exclusion polygons, as coordinates lists: a square around B alone; a band
\* around B and D; a triangle around A, C and D with B on its boundary; a
\* 2-vertex list.
ExclusionPolys ==
    { << <<1, -1>>, <<3, -1>>, <<3, 1>>, <<1, 1>> >>,
      << <<2, -1>>, <<3, 0>>, <<0, 3>>, <<-1, 2>> >>,
      << <<-1, -3>>, <<5, 3>>, <<-3, 5>> >>,
      << <<1, -1>>, <<3, 1>> >> }

\* Safe zones: a triangle whose centroid is nearest C; one whose centroid is
\* nearest D; a 2-vertex list.
SafeZones ==
    { << <<2, 2>>, <<5, 2>>, <<2, 5>> >>,
      << <<0, 2>>, <<-3, 2>>, <<0, 5>> >>,
      << <<2, 2>>, <<3, 3>> >> }

\* PathRequest
Requests ==
    [start_point : StartPoints,
     safe_zones : SeqsUpTo(SafeZones, MaxZones),
     polygons : SeqsUpTo(ExclusionPolys, MaxPolys)]

\* ------------------------------------------------------------------- state
VARIABLES
    artifact,               \* the pickle file on disk
    proj_ok,                \* whether Transformer.from_crs can succeed
    phase,                  \* "starting", "serving" or "exited"
    heap,                   \* the graph objects, by reference
    G_base,                 \* module globals (lines 24-28)
    node_points_base,
    transformer_to_metric,
    transformer_to_wgs84,
    pc,                     \* position of the find_path call in progress
    request,                \* find_path's argument and locals
    start_proj,
    G_temp,
    nodes_to_remove,
    start_node,
    shortest_path_len,
    final_target_node,
    processed_safe_zones,
    zi,                     \* index of the safe zone the loop is at (i + 1)
    path_nodes,
    response,               \* what the call answered
    work,                   \* the computation steps the call has performed
    prev,                   \* what a client has kept of the call before
    other,                  \* a second find_path call in progress, if any
    route_pc,               \* position of the api_find_safe_routes call
    danger_polygons,        \* api_find_safe_routes' locals
    all_routes_geojson,
    safe_routes_geojson,
    waypoint_combinations,
    last_resort_combos,
    wp_idx,                 \* index of the combination the loop is at (wp_idx + 1)
    reply                   \* what api_find_safe_routes answered

env == <<artifact, proj_ok>>
globals == <<heap, G_base, node_points_base, transformer_to_metric,
             transformer_to_wgs84>>
locals == <<request, start_proj, G_temp, nodes_to_remove, start_node,
            shortest_path_len, final_target_node, processed_safe_zones, zi,
            path_nodes>>
history == <<prev>>
map_wave == <<route_pc, danger_polygons, all_routes_geojson, safe_routes_geojson,
              waypoint_combinations, last_resort_combos, wp_idx, reply>>
vars == <<env, phase, globals, pc, locals, response, work, history, other,
          map_wave>>

\* References to graph objects.
BaseObj == "base"
TempObj == "temp"
TempObj2 == "temp2"

\* Variant: no copy is made, G_temp is another name of the base graph.
copy_alias(ref) == ref

\* Variant: every call keeps its copy in one and the same graph object.
copy_shared(ref) == TempObj

\* G_base.copy(): a new graph object, one that no call holds; the argument
\* is the copied reference.
copy(ref) == CHOOSE o \in {TempObj, TempObj2} : heap[o] = None

\* An f-string: its fixed text and the values formatted into it, by name.
Format(text, values) == [text |-> text, values |-> values]

\* `time.perf_counter() - request_start_time` as `:.4f` prints it, in
\* ten-thousandths of a second: what the clock gives, not the request.
ElapsedTimes == {1, 2}

\* HTTPException(status_code, detail) as the answer of the call.
HTTPException(status_code, detail) ==
    [status |-> status_code, path_found |-> FALSE, path |-> <<>>,
     message |-> Format(detail, <<>>)]

\* PathResponse(path_found, path, message), answered with status 200.  A
\* response without a path carries the empty list; message is a Format.
PathResponse(path_found, path, message) ==
    [status |-> 200, path_found |-> path_found, path |-> path,
     message |-> message]

\* The handler's outermost `except Exception as e` (lines 283-287): whatever
\* is raised inside the try block, an HTTPException included, is answered as
\* a 500.
OuterExcept(raised) == HTTPException(500, "Internal server error")

\* The process starts, with one of the pickle files on disk.
InitWith(artifacts) ==
    /\ artifact \in artifacts
    /\ proj_ok \in BOOLEAN
    /\ phase = "starting"
    /\ heap = [o \in {BaseObj, TempObj, TempObj2} |-> None]
    /\ G_base = NoNode
    /\ node_points_base = None
    /\ transformer_to_metric = NoNode
    /\ transformer_to_wgs84 = NoNode
    /\ pc = "idle"
    /\ request = None
    /\ start_proj = <<>>
    /\ G_temp = NoNode
    /\ nodes_to_remove = {}
    /\ start_node = NoNode
    /\ shortest_path_len = inf
    /\ final_target_node = NoNode
    /\ processed_safe_zones = 0
    /\ zi = 0
    /\ path_nodes = <<>>
    /\ response = None
    /\ work = <<>>
    /\ prev = None
    /\ other = None
    /\ route_pc = "idle"
    /\ danger_polygons = <<>>
    /\ all_routes_geojson = <<>>
    /\ safe_routes_geojson = <<>>
    /\ waypoint_combinations = <<>>
    /\ last_resort_combos = <<>>
    /\ wp_idx = 0
    /\ reply = None

Init == InitWith(Artifacts)

\* load_graph_data succeeds: the file exists, unpickles, has the three keys,
\* its graph answers number_of_nodes() and both transformers are created.
LoadSucceeds ==
    /\ artifact.exists
    /\ artifact.readable
    /\ AllKeys \subseteq artifact.keys
    /\ artifact.graph # None
    /\ proj_ok

\* lifespan startup: load_graph_data() and, when it returns, the server
\* starts to serve whatever the globals hold; every failure of
\* load_graph_data ends in sys.exit(1).
Lifespan ==
    /\ phase = "starting"
    /\ IF LoadSucceeds
       THEN /\ heap' = [heap EXCEPT ![BaseObj] = artifact.graph]
            /\ G_base' = BaseObj
            /\ node_points_base' = artifact.node_points
            /\ transformer_to_metric' = "to_metric"
            /\ transformer_to_wgs84' = "to_wgs84"
            /\ phase' = "serving"
       ELSE /\ phase' = "exited"
            /\ UNCHANGED globals
    /\ UNCHANGED <<env, map_wave, history, other, pc, locals, response, work>>

\* Variant: the guard does not look at node_points_base.
NotLoaded_nopoints ==
    \/ G_base = NoNode
    \/ transformer_to_metric = NoNode
    \/ transformer_to_wgs84 = NoNode

\* Lines 143-144: the guard of find_path.
NotLoaded ==
    \/ G_base = NoNode
    \/ node_points_base = None
    \/ transformer_to_metric = NoNode
    \/ transformer_to_wgs84 = NoNode

\* find_path is called with a request of the set reqs (lines 137-152): the
\* 503 guard, then the start point is reprojected.
FindPathCall(reqs) ==
    /\ phase = "serving"
    /\ pc = "idle"
    /\ \E req \in reqs :
        /\ request' = req
        /\ IF NotLoaded
           THEN /\ response' = HTTPException(503, "Server error: Graph data not loaded.")
                /\ pc' = "done"
                /\ UNCHANGED <<start_proj, work>>
           ELSE /\ start_proj' = transform_to_metric(req.start_point[1], req.start_point[2])
                /\ work' = Append(work, "reproject")
                /\ pc' = "copy"
                /\ UNCHANGED response
    /\ UNCHANGED <<env, map_wave, history, other, phase, globals, G_temp, nodes_to_remove, start_node,
                   shortest_path_len, final_target_node, processed_safe_zones,
                   zi, path_nodes>>

FindPathEntry == FindPathCall(Requests)

\* Variant: the new graph gets the nodes of the base graph and none of its
\* edges.
CopyGraph_nodes_only ==
    /\ pc = "copy"
    /\ G_temp' = copy(G_base)
    /\ heap' = [heap EXCEPT ![copy(G_base)] =
                    [nodes |-> heap[G_base].nodes, weight |-> <<>>]]
    /\ nodes_to_remove' = {}
    /\ work' = Append(work, "copy")
    /\ pc' = "exclude"
    /\ UNCHANGED <<env, map_wave, history, other, phase, G_base, node_points_base, transformer_to_metric,
                   transformer_to_wgs84, request, start_proj, start_node,
                   shortest_path_len, final_target_node, processed_safe_zones,
                   zi, path_nodes, response>>

\* Lines 155-156: G_temp = G_base.copy(); nodes_to_remove = set().
CopyGraph ==
    /\ pc = "copy"
    /\ G_temp' = copy(G_base)
    /\ heap' = [heap EXCEPT ![copy(G_base)] = heap[G_base]]
    /\ nodes_to_remove' = {}
    /\ work' = Append(work, "copy")
    /\ pc' = "exclude"
    /\ UNCHANGED <<env, map_wave, history, other, phase, G_base, node_points_base, transformer_to_metric,
                   transformer_to_wgs84, request, start_proj, start_node,
                   shortest_path_len, final_target_node, processed_safe_zones,
                   zi, path_nodes, response>>

\* A coordinates list, reprojected vertex by vertex.
ToMetric(coordinates) ==
    [k \in DOMAIN coordinates |->
        transform_to_metric(coordinates[k][1], coordinates[k][2])]

\* Polygon(coords) raises a ValueError: a ring needs 3 coordinates.
PolygonRaises(coordinates) == Len(coordinates) \in {1, 2}

\* Variant: no exclusion polygon is skipped.
Skipped_never(coordinates) == FALSE

\* Variant: a triangle is skipped too.
Skipped_upto3(coordinates) == Len(coordinates) <= 3

\* `len(poly_input.coordinates) < 3` (line 162): the exclusion polygon is
\* skipped.
Skipped(coordinates) == Len(coordinates) < 3

\* Variant: a node on the polygon's boundary counts as inside.
Inside_covers(coordinates, node_point) ==
    \/ Contains(ToMetric(coordinates), node_point)
    \/ OnBoundary(ToMetric(coordinates), node_point)

\* exclusion_poly.contains(node_point)
Inside(coordinates, node_point) == Contains(ToMetric(coordinates), node_point)

\* Variant: each polygon replaces the nodes found by the polygons before it,
\* so that only the last polygon of the list counts.
ExcludedBy_last(polygons, graph, node_points) ==
    {node \in IndexNodes(node_points) :
        /\ polygons # <<>>
        /\ ~Skipped(polygons[Len(polygons)])
        /\ node \in graph.nodes
        /\ Inside(polygons[Len(polygons)], PointOf(node_points, node))}

\* Lines 161-169: the nodes the two loops add to nodes_to_remove.
ExcludedBy(polygons, graph, node_points) ==
    {node \in IndexNodes(node_points) :
        \E k \in DOMAIN polygons :
            /\ ~Skipped(polygons[k])
            /\ node \in graph.nodes
            /\ Inside(polygons[k], PointOf(node_points, node))}

\* Lines 159-175: the exclusion polygons are applied to G_temp.  A polygon
\* that is not skipped and that shapely rejects ends the call in the outer
\* handler, with the nodes the polygons before it gave in nodes_to_remove.
Exclude ==
    /\ pc = "exclude"
    /\ LET raising == {k \in DOMAIN request.polygons :
                          ~Skipped(request.polygons[k]) /\ PolygonRaises(request.polygons[k])}
       IN  IF raising # {}
           THEN LET first == CHOOSE k \in raising : \A j \in raising : k <= j
                IN  /\ nodes_to_remove' = ExcludedBy(SubSeq(request.polygons, 1, first - 1),
                                                     heap[G_temp], node_points_base)
                    /\ response' = OuterExcept("ValueError")
                    /\ work' = Append(work, "fault")
                    /\ pc' = "done"
                    /\ UNCHANGED heap
           ELSE /\ IF request.polygons # <<>>
                   THEN LET found == ExcludedBy(request.polygons, heap[G_temp], node_points_base)
                        IN  /\ nodes_to_remove' = found
                            /\ heap' = IF found # {}
                                       THEN [heap EXCEPT ![G_temp] = remove_nodes_from(heap[G_temp], found)]
                                       ELSE heap
                            /\ work' = Append(work, "prune")
                   ELSE UNCHANGED <<nodes_to_remove, heap, work>>
                /\ pc' = "start"
                /\ UNCHANGED response
    /\ UNCHANGED <<env, map_wave, history, other, phase, G_base, node_points_base, transformer_to_metric,
                   transformer_to_wgs84, request, start_proj, G_temp, start_node,
                   shortest_path_len, final_target_node, processed_safe_zones,
                   zi, path_nodes>>

\* Variant: the start node is resolved on the base graph.
ResolveStart_base ==
    /\ pc = "start"
    /\ LET node == get_nearest_node_api(heap[G_base], Point(start_proj), node_points_base)
       IN  /\ start_node' = node
           /\ IF node = NoNode
              THEN /\ response' = PathResponse(FALSE, <<>>,
                                       Format("Could not find a starting node near {}, {}",
                                              [longitude |-> request.start_point[1],
                                               latitude |-> request.start_point[2]]))
                   /\ pc' = "done"
              ELSE /\ pc' = "zones"
                   /\ UNCHANGED response
    /\ work' = Append(work, "nearest")
    /\ UNCHANGED <<env, map_wave, history, other, phase, globals, request, start_proj, G_temp,
                   nodes_to_remove, shortest_path_len, final_target_node,
                   processed_safe_zones, zi, path_nodes>>

\* Lines 178-183: the start node is resolved on G_temp.
ResolveStart ==
    /\ pc = "start"
    /\ LET node == get_nearest_node_api(heap[G_temp], Point(start_proj), node_points_base)
       IN  /\ start_node' = node
           /\ IF node = NoNode
              THEN /\ response' = PathResponse(FALSE, <<>>,
                                       Format("Could not find a starting node near {}, {}",
                                              [longitude |-> request.start_point[1],
                                               latitude |-> request.start_point[2]]))
                   /\ pc' = "done"
              ELSE /\ pc' = "zones"
                   /\ UNCHANGED response
    /\ work' = Append(work, "nearest")
    /\ UNCHANGED <<env, map_wave, history, other, phase, globals, request, start_proj, G_temp,
                   nodes_to_remove, shortest_path_len, final_target_node,
                   processed_safe_zones, zi, path_nodes>>

\* Lines 187-192: the safe_zones list is checked, inside the try block, and
\* the loop variables are set.
CheckSafeZones ==
    /\ pc = "zones"
    /\ IF request.safe_zones = <<>>
       THEN /\ response' = OuterExcept(HTTPException(400, "At least one safe zone must be provided."))
            /\ pc' = "done"
            /\ UNCHANGED <<shortest_path_len, final_target_node, processed_safe_zones, zi>>
       ELSE /\ shortest_path_len' = inf
            /\ final_target_node' = NoNode
            /\ processed_safe_zones' = 0
            /\ zi' = 1
            /\ pc' = "zone"
            /\ UNCHANGED response
    /\ UNCHANGED <<env, map_wave, history, other, phase, globals, request, start_proj, G_temp,
                   nodes_to_remove, start_node, path_nodes, work>>

\* Variant: no safe zone is skipped.
SkippedZone_never(coordinates) == FALSE

\* `len(safe_zone_input.coordinates) < 3` (line 196): the safe zone is
\* skipped.
SkippedZone(coordinates) == Len(coordinates) < 3

\* Variant: the centroid is taken of the geographic coordinates, the
\* reprojection left out.
RepresentativeNode_geographic(coordinates, graph, node_points) ==
    get_nearest_node_api(graph, Centroid(coordinates), node_points)

\* Lines 201-209: the zone's representative node, the node of G_temp nearest
\* to the centroid of the reprojected polygon.
RepresentativeNode(coordinates, graph, node_points) ==
    get_nearest_node_api(graph, Centroid(ToMetric(coordinates)), node_points)

\* Variant: a candidate at the same cost replaces the one found before.
Shorter_orequal(current_path_length, shortest) == current_path_length <= shortest

\* `current_path_length < shortest_path_len`
Shorter(current_path_length, shortest) == current_path_length < shortest

\* Variant: the test is left out, every candidate goes through the search.
IsStart_never(start, current_target_node) == FALSE

\* `start_node == current_target_node` (line 219)
IsStart(start, current_target_node) == start = current_target_node

\* Lines 231-235: a reachable candidate is compared with the best so far.
Compare(current_path_length, current_target_node) ==
    /\ IF Shorter(current_path_length, shortest_path_len)
       THEN /\ shortest_path_len' = current_path_length
            /\ final_target_node' = current_target_node
       ELSE UNCHANGED <<shortest_path_len, final_target_node>>
    /\ processed_safe_zones' = processed_safe_zones + 1

\* Lines 194-243: one pass of the loop over request.safe_zones.  A zone that
\* is not skipped and that shapely rejects ends the call in the outer handler.
ZoneStep ==
    /\ pc = "zone"
    /\ zi <= Len(request.safe_zones)
    /\ LET coordinates == request.safe_zones[zi]
           graph == heap[G_temp]
           current_target_node ==
               RepresentativeNode(coordinates, graph, node_points_base)
       IN  IF ~SkippedZone(coordinates) /\ PolygonRaises(coordinates)
           THEN /\ response' = OuterExcept("ValueError")
                /\ work' = Append(work, "fault")
                /\ pc' = "done"
                /\ UNCHANGED <<shortest_path_len, final_target_node,
                               processed_safe_zones, zi>>
           ELSE /\ IF SkippedZone(coordinates)
                   THEN UNCHANGED <<shortest_path_len, final_target_node,
                                    processed_safe_zones, work>>
                   ELSE IF current_target_node = NoNode
                   THEN /\ work' = Append(work, "nearest")
                        /\ UNCHANGED <<shortest_path_len, final_target_node,
                                       processed_safe_zones>>
                   ELSE IF IsStart(start_node, current_target_node)
                   THEN /\ Compare(0, current_target_node)
                        /\ work' = Append(work, "nearest")
                   ELSE IF has_path(graph, start_node, current_target_node)
                   THEN IF SearchRaises(graph, start_node, current_target_node)
                        THEN \* `except Exception as e: ... continue` (lines 241-243)
                             /\ work' = work \o <<"nearest", "has_path", "fault">>
                             /\ UNCHANGED <<shortest_path_len, final_target_node,
                                            processed_safe_zones>>
                        ELSE /\ Compare(shortest_path_length(graph, start_node, current_target_node),
                                        current_target_node)
                             /\ work' = work \o <<"nearest", "has_path", "length">>
                   ELSE /\ work' = work \o <<"nearest", "has_path">>
                        /\ UNCHANGED <<shortest_path_len, final_target_node,
                                       processed_safe_zones>>
                /\ zi' = zi + 1
                /\ UNCHANGED <<pc, response>>
    /\ UNCHANGED <<env, map_wave, history, other, phase, globals, request, start_proj, G_temp,
                   nodes_to_remove, start_node, path_nodes>>

\* Lines 253-260: the path's nodes, reprojected; a node the index lacks is
\* left out.
PathCoords(nodes, node_points) ==
    LET known == SelectSeq(nodes, LAMBDA n : n \in IndexNodes(node_points))
    IN  [k \in DOMAIN known |->
            transform_to_wgs84(PointOf(node_points, known[k])[1],
                               PointOf(node_points, known[k])[2])]

\* Variant: the call answers as soon as one candidate has been found, the
\* zones after it not compared.
Final_first_found ==
    /\ pc = "zone"
    /\ (zi > Len(request.safe_zones) \/ final_target_node # NoNode)
    /\ \E calculation_time \in ElapsedTimes :
        IF final_target_node # NoNode
        THEN IF SearchRaises(heap[G_temp], start_node, final_target_node)
             THEN \* `except Exception as final_path_err` (lines 273-276), then
                  \* the outer handler
                  /\ response' = OuterExcept(HTTPException(500, "Error calculating final shortest path"))
                  /\ work' = Append(work, "fault")
                  /\ UNCHANGED path_nodes
             ELSE LET nodes == shortest_path(heap[G_temp], start_node, final_target_node)
                      path_coords_wgs84 == PathCoords(nodes, node_points_base)
                  IN  /\ path_nodes' = nodes
                      /\ response' = PathResponse(TRUE, path_coords_wgs84,
                                          Format("Path found to nearest safe zone in {} seconds. Nodes: {}",
                                                 [seconds |-> calculation_time,
                                                  nodes |-> Len(path_coords_wgs84)]))
                      /\ work' = Append(work, "path")
        ELSE /\ response' = PathResponse(FALSE, <<>>,
                                 Format("Could not find a path. Searched {} zones. Time: {}s",
                                        [zones |-> Len(request.safe_zones),
                                         seconds |-> calculation_time]))
             /\ UNCHANGED <<path_nodes, work>>
    /\ pc' = "done"
    /\ UNCHANGED <<env, map_wave, history, other, phase, globals, request, start_proj, G_temp,
                   nodes_to_remove, start_node, shortest_path_len,
                   final_target_node, processed_safe_zones, zi>>

\* Lines 246-281: after the loop, the path to the chosen node is computed and
\* answered, or the absence of a path is; both messages carry the elapsed
\* time.
Final ==
    /\ pc = "zone"
    /\ zi > Len(request.safe_zones)
    /\ \E calculation_time \in ElapsedTimes :
        IF final_target_node # NoNode
        THEN IF SearchRaises(heap[G_temp], start_node, final_target_node)
             THEN \* `except Exception as final_path_err` (lines 273-276), then
                  \* the outer handler
                  /\ response' = OuterExcept(HTTPException(500, "Error calculating final shortest path"))
                  /\ work' = Append(work, "fault")
                  /\ UNCHANGED path_nodes
             ELSE LET nodes == shortest_path(heap[G_temp], start_node, final_target_node)
                      path_coords_wgs84 == PathCoords(nodes, node_points_base)
                  IN  /\ path_nodes' = nodes
                      /\ response' = PathResponse(TRUE, path_coords_wgs84,
                                          Format("Path found to nearest safe zone in {} seconds. Nodes: {}",
                                                 [seconds |-> calculation_time,
                                                  nodes |-> Len(path_coords_wgs84)]))
                      /\ work' = Append(work, "path")
        ELSE /\ response' = PathResponse(FALSE, <<>>,
                                 Format("Could not find a path. Searched {} zones. Time: {}s",
                                        [zones |-> Len(request.safe_zones),
                                         seconds |-> calculation_time]))
             /\ UNCHANGED <<path_nodes, work>>
    /\ pc' = "done"
    /\ UNCHANGED <<env, map_wave, history, other, phase, globals, request, start_proj, G_temp,
                   nodes_to_remove, start_node, shortest_path_len,
                   final_target_node, processed_safe_zones, zi>>

\* The call has answered: its locals, G_temp's graph among them, are gone.
EndCall ==
    /\ pc = "done"
    /\ pc' = "idle"
    /\ heap' = IF \/ G_temp = NoNode
                  \/ G_temp = G_base
                  \/ (other # None /\ other.G_temp = G_temp)
               THEN heap
               ELSE [heap EXCEPT ![G_temp] = None]
    /\ request' = None
    /\ start_proj' = <<>>
    /\ G_temp' = NoNode
    /\ nodes_to_remove' = {}
    /\ start_node' = NoNode
    /\ shortest_path_len' = inf
    /\ final_target_node' = NoNode
    /\ processed_safe_zones' = 0
    /\ zi' = 0
    /\ path_nodes' = <<>>
    /\ response' = None
    /\ work' = <<>>
    /\ UNCHANGED <<env, map_wave, other, phase, G_base, node_points_base, transformer_to_metric,
                   transformer_to_wgs84>>

Return == EndCall /\ UNCHANGED history

Next ==
    \/ Lifespan
    \/ FindPathEntry
    \/ CopyGraph
    \/ Exclude
    \/ ResolveStart
    \/ CheckSafeZones
    \/ ZoneStep
    \/ Final
    \/ Return

Spec == Init /\ [][Next]_vars

\* The requests from node A towards the first safe zone, with every
\* polygons list: the exclusion step over all its inputs.
ExclusionRequests ==
    {req \in Requests :
        /\ req.start_point = <<0, 0>>
        /\ req.safe_zones = << << <<2, 2>>, <<5, 2>>, <<2, 5>> >> >>}

NextExclusion ==
    \/ Lifespan
    \/ FindPathCall(ExclusionRequests)
    \/ CopyGraph
    \/ Exclude
    \/ ResolveStart
    \/ CheckSafeZones
    \/ ZoneStep
    \/ Final
    \/ Return

SpecExclusion == Init /\ [][NextExclusion]_vars

\* ------------------------------------------------ two calls, one after the other
\* What is kept of an answered call: the request, the working graph it
\* searched, the nodes it resolved and its response.
Outcome ==
    [request |-> request,
     graph |-> IF G_temp = NoNode THEN None ELSE heap[G_temp],
     start_node |-> start_node,
     final_target_node |-> final_target_node,
     response |-> response]

\* The first call returns and its outcome is kept.
ReturnObserved ==
    /\ prev = None
    /\ EndCall
    /\ prev' = Outcome

\* The second call returns.
ReturnSecond ==
    /\ prev # None
    /\ EndCall
    /\ prev' = None

\* The list s without its element k.
RemoveAt(s, k) == [j \in 1..(Len(s) - 1) |-> IF j < k THEN s[j] ELSE s[j + 1]]

\* The requests that are req without one of its exclusion polygons of fewer
\* than 3 vertices, or without one of its safe zones of fewer than 3
\* vertices.
Shortened(req) ==
    {[req EXCEPT !.polygons = RemoveAt(req.polygons, k)] :
        k \in {j \in DOMAIN req.polygons : Len(req.polygons[j]) < 3}}
    \cup
    {[req EXCEPT !.safe_zones = RemoveAt(req.safe_zones, k)] :
        k \in {j \in DOMAIN req.safe_zones : Len(req.safe_zones[j]) < 3}}

\* A call with any request, then a call with the same request shortened.
NextPair ==
    \/ Lifespan
    \/ (prev = None /\ FindPathCall(Requests))
    \/ (prev # None /\ FindPathCall(Shortened(prev.request)))
    \/ CopyGraph
    \/ Exclude
    \/ ResolveStart
    \/ CheckSafeZones
    \/ ZoneStep
    \/ Final
    \/ ReturnObserved
    \/ ReturnSecond

SpecPair == Init /\ [][NextPair]_vars

\* The requests with at most one exclusion polygon.
RepeatRequests == {req \in Requests : Len(req.polygons) <= 1}

\* The requests another client sends in between: from node A, no safe zone,
\* one exclusion polygon.
BetweenRequests ==
    {req \in Requests :
        /\ req.start_point = <<0, 0>>
        /\ req.safe_zones = <<>>
        /\ Len(req.polygons) = 1}

\* A call, then possibly a call of another client, then the first call's
\* request again.
NextRepeat ==
    \/ Lifespan
    \/ (prev = None /\ FindPathCall(RepeatRequests))
    \/ (prev # None /\ FindPathCall(BetweenRequests \cup {prev.request}))
    \/ CopyGraph
    \/ Exclude
    \/ ResolveStart
    \/ CheckSafeZones
    \/ ZoneStep
    \/ Final
    \/ ReturnObserved
    \/ (prev # None /\ request # prev.request /\ Return)
    \/ (prev # None /\ request = prev.request /\ ReturnSecond)

SpecRepeat == Init /\ [][NextRepeat]_vars

\* The requests with one safe zone and at least one exclusion polygon.
OrderRequests ==
    {req \in Requests : Len(req.safe_zones) = 1 /\ req.polygons # <<>>}

\* The requests that are req with its exclusion polygons listed otherwise:
\* the same polygons in another order, or with a polygon repeated or a
\* repetition left out.
Reordered(req) ==
    {[req EXCEPT !.polygons = ps] :
        ps \in {s \in SeqsUpTo(Range(req.polygons), MaxPolys) :
                   Range(s) = Range(req.polygons) /\ s # req.polygons}}

\* A call, then a call with the same request, its polygons listed otherwise.
NextOrder ==
    \/ Lifespan
    \/ (prev = None /\ FindPathCall(OrderRequests))
    \/ (prev # None /\ FindPathCall(Reordered(prev.request)))
    \/ CopyGraph
    \/ Exclude
    \/ ResolveStart
    \/ CheckSafeZones
    \/ ZoneStep
    \/ Final
    \/ ReturnObserved
    \/ ReturnSecond

SpecOrder == Init /\ [][NextOrder]_vars

\* ------------------------------------------------ two calls at the same time
\* The requests of the call that is observed: from node A, one safe zone.
ConcurrentRequests ==
    {req \in Requests : req.start_point = <<0, 0>> /\ Len(req.safe_zones) = 1}

\* The requests of the second call: at most one exclusion polygon (its start
\* point and safe zones have no part in what it does to the graphs).
OtherRequests ==
    {req \in Requests :
        /\ req.start_point = <<0, 0>>
        /\ req.safe_zones = <<>>
        /\ Len(req.polygons) <= 1}

\* A second call enters find_path while the graph is loaded (lines 143-152).
OtherEntry ==
    /\ phase = "serving"
    /\ ~NotLoaded
    /\ prev # None
    /\ other = None
    /\ \E req \in OtherRequests :
          other' = [pc |-> "copy", request |-> req, G_temp |-> NoNode]
    /\ UNCHANGED <<env, map_wave, history, phase, globals, pc, locals, response, work>>

\* Lines 155-156 of the second call.
OtherCopy ==
    /\ other # None
    /\ other.pc = "copy"
    /\ other' = [other EXCEPT !.pc = "exclude", !.G_temp = copy(G_base)]
    /\ heap' = [heap EXCEPT ![copy(G_base)] = heap[G_base]]
    /\ UNCHANGED <<env, map_wave, history, phase, G_base, node_points_base, transformer_to_metric,
                   transformer_to_wgs84, pc, locals, response, work>>

\* Lines 159-175 of the second call.
OtherExclude ==
    /\ other # None
    /\ other.pc = "exclude"
    /\ LET found == ExcludedBy(other.request.polygons, heap[other.G_temp], node_points_base)
       IN  heap' = IF found # {}
                   THEN [heap EXCEPT ![other.G_temp] = remove_nodes_from(heap[other.G_temp], found)]
                   ELSE heap
    /\ other' = [other EXCEPT !.pc = "search"]
    /\ UNCHANGED <<env, map_wave, history, phase, G_base, node_points_base, transformer_to_metric,
                   transformer_to_wgs84, pc, locals, response, work>>

\* Lines 178-287 of the second call: it searches its graph, which it only
\* reads, and returns.
OtherReturn ==
    /\ other # None
    /\ other.pc = "search"
    /\ heap' = IF other.G_temp = G_base \/ other.G_temp = G_temp
               THEN heap
               ELSE [heap EXCEPT ![other.G_temp] = None]
    /\ other' = None
    /\ UNCHANGED <<env, map_wave, history, phase, G_base, node_points_base, transformer_to_metric,
                   transformer_to_wgs84, pc, locals, response, work>>

\* A call that runs alone, then the same request again while a second call
\* runs, the steps of the two in any order.
NextConcurrent ==
    \/ Lifespan
    \/ (prev = None /\ other = None /\ FindPathCall(ConcurrentRequests))
    \/ (prev # None /\ FindPathCall({prev.request}))
    \/ CopyGraph
    \/ Exclude
    \/ ResolveStart
    \/ CheckSafeZones
    \/ ZoneStep
    \/ Final
    \/ ReturnObserved
    \/ ReturnSecond
    \/ OtherEntry
    \/ OtherCopy
    \/ OtherExclude
    \/ OtherReturn

SpecConcurrent == Init /\ [][NextConcurrent]_vars

\* The server started on a pickle file whose graph has an edge weight that
\* is not a number.
InitFault == InitWith(FaultyArtifacts)

SpecFault == InitFault /\ [][Next]_vars

\* --------------------------------- archived endpoint: api_find_safe_routes
\* src/_archive/map_wave/app.py.  The map is a handful of places: "s" and
\* "e" are what the two addresses geocode to, "s1" and "e1" the road points
\* Mapbox snaps them to, "m1" and "m2" two ways in between, "x" a place no
\* route passes.  A coordinates list is a sequence of places, a polygon the
\* set of places it covers.
start_coords == "s"
end_coords == "e"

\* The JSON bodies of the requests: the addresses, present or empty, and
\* the danger_zones features: a polygon over m1, a polygon over x, a polygon
\* whose geometry shape() rejects, a point.
DangerFeatures ==
    { [geometry |-> [type |-> "Polygon", covers |-> {"m1"}, valid |-> TRUE]],
      [geometry |-> [type |-> "Polygon", covers |-> {"x"}, valid |-> TRUE]],
      [geometry |-> [type |-> "Polygon", covers |-> {}, valid |-> FALSE]],
      [geometry |-> [type |-> "Point", covers |-> {"m1"}, valid |-> TRUE]] }

RouteRequests ==
    [start_address : {"", "here"},
     end_address : {"", "there"},
     danger_zones : SeqsUpTo(DangerFeatures, MaxFeatures)]

\* get_coordinates_from_address (lines 27-42): the coordinates of the first
\* feature Mapbox finds, or None.
NoCoords == "None"
Geocoded(place) == {NoCoords, place}

\* Lines 515-528: the features whose geometry is a Polygon that shape()
\* accepts, as polygons; the others are skipped with a print.
Shapes(features) ==
    LET kept == SelectSeq(features, LAMBDA f : f.geometry.type = "Polygon" /\ f.geometry.valid)
    IN  [k \in DOMAIN kept |-> kept[k].geometry.covers]

\* The routes of a Mapbox reply, as coordinates lists.
RawRoutes ==
    { [geometry |-> [coordinates |-> <<"s1", "m1", "e1">>]],
      [geometry |-> [coordinates |-> <<"s1", "m2", "e1">>]] }

\* find_routes (lines 45-79): None when the request fails, otherwise the
\* JSON of the reply, which has a "routes" key or not.
MapboxReplies ==
    {None, [code |-> "NoRoute"]}
    \cup {[code |-> "Ok", routes |-> rs] : rs \in SeqsUpTo(RawRoutes, MaxRoutes)}

\* `not route_data or "routes" not in route_data`
NoRoutes(route_data) == "routes" \notin DOMAIN route_data

\* ensure_valid_route (lines 448-481)
ensure_valid_route(route_coords, start, end) ==
    IF route_coords = <<>>
    THEN route_coords
    ELSE <<start>>
         \o (IF Len(route_coords) > 2
             THEN SubSeq(route_coords, 2, Len(route_coords) - 1)
             ELSE <<>>)
         \o <<end>>

\* path_line.intersects(danger_zone): the line passes a place of the zone.
Intersects(path_coords, danger_zone) == Range(path_coords) \cap danger_zone # {}

\* The is_safe flag after the loop over danger_polygons.
IsSafe(path_coords, polygons) ==
    \A k \in DOMAIN polygons : ~Intersects(path_coords, polygons[k])

\* str(uuid.uuid4()): an identifier no feature built before has.
uuid4(features) == <<"uuid", Len(features) + 1>>

\* The GeoJSON feature of a direct route (lines 558-571).
DirectFeature(path_coords, route_id, i, is_safe) ==
    [type |-> "Feature",
     geometry |-> [type |-> "LineString", coordinates |-> path_coords],
     properties |-> [id |-> route_id, route_index |-> i, route_type |-> "direct",
                     is_safe |-> is_safe, visible |-> TRUE]]

\* The GeoJSON feature of a route through waypoints (lines 685-698, 820-836).
WaypointFeature(path_coords, route_id, route_index, route_type, wp_combo, is_safe) ==
    [type |-> "Feature",
     geometry |-> [type |-> "LineString", coordinates |-> path_coords],
     properties |-> [id |-> route_id, route_index |-> route_index,
                     route_type |-> route_type, waypoints |-> wp_combo,
                     is_safe |-> is_safe, visible |-> TRUE]]

\* jsonify({...}), status: an answer without route lists.
ErrorReply(status, error) == [status |-> status, error |-> error]

\* jsonify({"message": ..., "safe_routes": ..., "all_routes": ...})
RoutesReply(message, safe_routes, all_routes) ==
    [status |-> 200, message |-> message, safe_routes |-> safe_routes,
     all_routes |-> all_routes]

\* Lines 494-528: the addresses are checked and geocoded, the danger zones
\* converted.
ApiEntry ==
    /\ route_pc = "idle"
    /\ reply = None
    /\ \E data \in RouteRequests, start \in Geocoded(start_coords), end \in Geocoded(end_coords) :
          IF data.start_address = "" \/ data.end_address = ""
          THEN /\ reply' = ErrorReply(400, Format("Start and end addresses are required.", <<>>))
               /\ route_pc' = "done"
               /\ UNCHANGED danger_polygons
          ELSE IF start = NoCoords
          THEN /\ reply' = ErrorReply(400, Format("Could not geocode start address: {}",
                                                  [address |-> data.start_address]))
               /\ route_pc' = "done"
               /\ UNCHANGED danger_polygons
          ELSE IF end = NoCoords
          THEN /\ reply' = ErrorReply(400, Format("Could not geocode end address: {}",
                                                  [address |-> data.end_address]))
               /\ route_pc' = "done"
               /\ UNCHANGED danger_polygons
          ELSE /\ danger_polygons' = Shapes(data.danger_zones)
               /\ route_pc' = "direct"
               /\ UNCHANGED reply
    /\ UNCHANGED <<env, phase, globals, pc, locals, response, work, history, other,
                   all_routes_geojson, safe_routes_geojson, waypoint_combinations,
                   last_resort_combos, wp_idx>>

\* Lines 531-587: the direct routes are asked for and each is checked
\* against the danger zones; safe direct routes are answered at once.
DirectRoutes ==
    /\ route_pc = "direct"
    /\ \E route_data \in MapboxReplies :
          IF NoRoutes(route_data)
          THEN /\ reply' = ErrorReply(500, Format("Could not retrieve routes from Mapbox.", <<>>))
               /\ route_pc' = "done"
               /\ UNCHANGED <<all_routes_geojson, safe_routes_geojson>>
          ELSE LET features ==
                       [i \in DOMAIN route_data.routes |->
                           LET path_coords == ensure_valid_route(
                                                  route_data.routes[i].geometry.coordinates,
                                                  start_coords, end_coords)
                           IN  DirectFeature(path_coords, <<"uuid", i>>, i,
                                             IsSafe(path_coords, danger_polygons))]
                   safe == SelectSeq(features, LAMBDA f : f.properties.is_safe)
               IN  /\ all_routes_geojson' = features
                   /\ safe_routes_geojson' = safe
                   /\ IF safe # <<>>
                      THEN /\ reply' = RoutesReply(Format("Found {} safe direct route(s).",
                                                          [count |-> Len(safe)]),
                                                   safe, features)
                           /\ route_pc' = "done"
                      ELSE /\ route_pc' = "waypoints"
                           /\ UNCHANGED reply
    /\ UNCHANGED <<env, phase, globals, pc, locals, response, work, history, other,
                   danger_polygons, waypoint_combinations, last_resort_combos, wp_idx>>

\* The pairs <<i, j>> with 1 <= i < j <= n.
Pairs(n) == {p \in (1..n) \X (1..n) : p[1] < p[2]}

\* The lists without repetition of elements of S.
Orderings(S) ==
    {s \in SeqsUpTo(S, Cardinality(S)) : \A j, k \in DOMAIN s : j # k => s[j] # s[k]}

\* p comes before q in the order of itertools.combinations and of the
\* nested range loops: by first element, then second, then third.
Before(p, q) ==
    \E k \in DOMAIN p :
        /\ p[k] < q[k]
        /\ \A j \in 1..(k - 1) : p[j] = q[j]

\* The elements of S, a set of tuples of one length, in that order.
InOrder(S) ==
    [r \in 1..Cardinality(S) |->
        CHOOSE p \in S : Cardinality({q \in S : Before(q, p)}) = r - 1]

\* s[:n]
Take(s, n) == SubSeq(s, 1, Min2(n, Len(s)))

\* `max_combinations_to_try = 15` (line 657)
max_combinations_to_try == 15

\* Lines 621-654: every waypoint alone, then the closest pairs among those
\* closer than max_pair_distance, at most 10, then at most 3 triplets of the
\* first 8 waypoints.  Waypoints are named by their position in the list;
\* `pairs` is the list of the close pairs, closest first.
Combinations(n, pairs) ==
    [i \in 1..n |-> <<i>>]
    \o Take(pairs, 10)
    \o (IF n >= 3
        THEN Take(InOrder({t \in (1..Min2(8, n)) \X (1..Min2(8, n)) \X (1..Min2(8, n)) :
                              t[1] < t[2] /\ t[2] < t[3]}), 3)
        ELSE <<>>)

\* Lines 593-654: the waypoints are generated and combined; without
\* waypoints the call answers with the unsafe direct routes.
GenerateWaypoints ==
    /\ route_pc = "waypoints"
    /\ \E n \in 0..MaxWaypoints :
          IF n = 0
          THEN /\ reply' = RoutesReply(Format("No safe routes found and couldn't generate waypoints.", <<>>),
                                       <<>>, all_routes_geojson)
               /\ route_pc' = "done"
               /\ UNCHANGED <<waypoint_combinations, wp_idx>>
          ELSE \E pairs \in UNION {Orderings(close) : close \in SUBSET Pairs(n)} :
                  /\ waypoint_combinations' = Combinations(n, pairs)
                  /\ wp_idx' = 1
                  /\ route_pc' = "combinations"
                  /\ UNCHANGED reply
    /\ UNCHANGED <<env, phase, globals, pc, locals, response, work, history, other,
                   danger_polygons, all_routes_geojson, safe_routes_geojson,
                   last_resort_combos>>

\* Variant: the search never has enough safe routes.
Enough_never(safe_routes) == FALSE

\* `len(safe_routes_geojson) >= 3` (lines 707, 710, 842, 845)
Enough(safe_routes) == Len(safe_routes) >= 3

\* The loop over the routes of one reply (lines 667-708, 801-843): each
\* route becomes a feature of all_routes, a safe one of safe_routes too, and
\* the loop is left once there are enough safe routes.  The result is the
\* two lists.
RECURSIVE Collect(_, _, _, _, _, _, _)
Collect(routes, i, all_routes, safe_routes, polygons, route_type, wp_combo) ==
    IF i > Len(routes)
    THEN [all_routes |-> all_routes, safe_routes |-> safe_routes]
    ELSE LET path_coords == ensure_valid_route(routes[i].geometry.coordinates,
                                               start_coords, end_coords)
             is_safe == IsSafe(path_coords, polygons)
             route_feature == WaypointFeature(path_coords, uuid4(all_routes),
                                              Len(all_routes) + 1, route_type,
                                              wp_combo, is_safe)
             all2 == Append(all_routes, route_feature)
             safe2 == IF is_safe THEN Append(safe_routes, route_feature) ELSE safe_routes
         IN  IF Enough(safe2)
             THEN [all_routes |-> all2, safe_routes |-> safe2]
             ELSE Collect(routes, i + 1, all2, safe2, polygons, route_type, wp_combo)

\* Lines 658-711: one turn of the loop over the waypoint combinations.
TryCombination ==
    /\ route_pc = "combinations"
    /\ LET tried == Take(waypoint_combinations, max_combinations_to_try)
       IN  \E waypoint_route_data \in MapboxReplies :
              LET found == IF NoRoutes(waypoint_route_data)
                           THEN [all_routes |-> all_routes_geojson,
                                 safe_routes |-> safe_routes_geojson]
                           ELSE Collect(waypoint_route_data.routes, 1, all_routes_geojson,
                                        safe_routes_geojson, danger_polygons, "waypoint",
                                        tried[wp_idx])
              IN  /\ all_routes_geojson' = found.all_routes
                  /\ safe_routes_geojson' = found.safe_routes
                  /\ IF Enough(found.safe_routes) \/ wp_idx >= Len(tried)
                     THEN /\ route_pc' = "last_resort"
                          /\ UNCHANGED wp_idx
                     ELSE /\ wp_idx' = wp_idx + 1
                          /\ UNCHANGED route_pc
    /\ UNCHANGED <<env, phase, globals, pc, locals, response, work, history, other,
                   danger_polygons, waypoint_combinations, last_resort_combos, reply>>

\* The places of the corridor along the direct line (lines 718-723).
path_corridor == {"s", "m1", "m2", "e"}

\* Lines 780-787: pairs of the first waypoints, each of the first 4 with
\* the next two.
LastResortCombos(n) ==
    InOrder({p \in Pairs(n) : p[1] <= Min2(4, n) /\ p[2] <= Min2(p[1] + 2, n)})

\* Lines 714-787: without a safe route and with danger zones, waypoints on
\* the boundary of the danger zones inside the corridor are looked for; the
\* road filter leaves any number of them.
LastResort ==
    /\ route_pc = "last_resort"
    /\ IF safe_routes_geojson = <<>> /\ danger_polygons # <<>>
          /\ \E k \in DOMAIN danger_polygons : danger_polygons[k] \cap path_corridor # {}
       THEN \E n \in 0..MaxExtraWaypoints :
               IF n >= 2
               THEN /\ last_resort_combos' = LastResortCombos(n)
                    /\ wp_idx' = 1
                    /\ route_pc' = "focused"
               ELSE /\ route_pc' = "respond"
                    /\ UNCHANGED <<last_resort_combos, wp_idx>>
       ELSE /\ route_pc' = "respond"
            /\ UNCHANGED <<last_resort_combos, wp_idx>>
    /\ UNCHANGED <<env, phase, globals, pc, locals, response, work, history, other,
                   danger_polygons, all_routes_geojson, safe_routes_geojson,
                   waypoint_combinations, reply>>

\* Lines 790-846: one turn of the loop over the last-resort combinations.
TryFocused ==
    /\ route_pc = "focused"
    /\ LET tried == Take(last_resort_combos, 5)
       IN  \E waypoint_route_data \in MapboxReplies :
              LET found == IF NoRoutes(waypoint_route_data)
                           THEN [all_routes |-> all_routes_geojson,
                                 safe_routes |-> safe_routes_geojson]
                           ELSE Collect(waypoint_route_data.routes, 1, all_routes_geojson,
                                        safe_routes_geojson, danger_polygons, "focused",
                                        tried[wp_idx])
              IN  /\ all_routes_geojson' = found.all_routes
                  /\ safe_routes_geojson' = found.safe_routes
                  /\ IF Enough(found.safe_routes) \/ wp_idx >= Len(tried)
                     THEN /\ route_pc' = "respond"
                          /\ UNCHANGED wp_idx
                     ELSE /\ wp_idx' = wp_idx + 1
                          /\ UNCHANGED route_pc
    /\ UNCHANGED <<env, phase, globals, pc, locals, response, work, history, other,
                   danger_polygons, waypoint_combinations, last_resort_combos, reply>>

\* Lines 848-863: the answer after the searches.
Respond ==
    /\ route_pc = "respond"
    /\ reply' = IF safe_routes_geojson = <<>>
                THEN RoutesReply(Format("No safe routes found even with waypoints.", <<>>),
                                 <<>>, all_routes_geojson)
                ELSE RoutesReply(Format("Found {} safe route(s) using waypoints.",
                                        [count |-> Len(safe_routes_geojson)]),
                                 safe_routes_geojson, all_routes_geojson)
    /\ route_pc' = "done"
    /\ UNCHANGED <<env, phase, globals, pc, locals, response, work, history, other,
                   danger_polygons, all_routes_geojson, safe_routes_geojson,
                   waypoint_combinations, last_resort_combos, wp_idx>>

\* The answer is sent and the call's locals are gone.
ApiReturn ==
    /\ route_pc = "done"
    /\ route_pc' = "idle"
    /\ danger_polygons' = <<>>
    /\ all_routes_geojson' = <<>>
    /\ safe_routes_geojson' = <<>>
    /\ waypoint_combinations' = <<>>
    /\ last_resort_combos' = <<>>
    /\ wp_idx' = 0
    /\ reply' = None
    /\ UNCHANGED <<env, phase, globals, pc, locals, response, work, history, other>>

NextArchive ==
    \/ ApiEntry
    \/ DirectRoutes
    \/ GenerateWaypoints
    \/ TryCombination
    \/ LastResort
    \/ TryFocused
    \/ Respond
    \/ ApiReturn

\* The Flask application runs on its own: the road graph service and its
\* pickle file are not there.
InitArchive ==
    /\ InitWith({Pickle(FALSE, FALSE, {}, None, None)})
    /\ proj_ok

SpecArchive == InitArchive /\ [][NextArchive]_vars

\* ============================================================== properties
\* Definitions the properties are stated with; none of them is used by the
\* actions above.

\* The call in progress has copied the graph: G_temp is bound.
HasWorkingGraph == pc \in {"exclude", "start", "zones", "zone", "done"} /\ G_temp # NoNode
\* The exclusion step of the call in progress is over.
Pruned == pc \in {"start", "zones", "zone", "done"} /\ G_temp # NoNode
WorkingGraph == heap[G_temp]
BaseGraph == heap[BaseObj]
Answered == pc = "done"

\* The base graph, the coordinate index or a transformer is unloaded.
Unloaded ==
    \/ G_base = NoNode
    \/ heap[BaseObj] = None
    \/ node_points_base = None
    \/ transformer_to_metric = NoNode
    \/ transformer_to_wgs84 = NoNode

\* p is strictly inside the convex polygon poly: strictly on the same side of
\* every edge.
StrictlyInside(poly, p) ==
    LET side(k) == Cross(poly[k], poly[NextIdx(k, Len(poly))], p)
    IN  \/ \A k \in DOMAIN poly : side(k) > 0
        \/ \A k \in DOMAIN poly : side(k) < 0

\* The request's exclusion polygons with 3 or more vertices, in metric
\* coordinates.
ValidExclusions(req) ==
    {ToMetric(req.polygons[k]) : k \in {j \in DOMAIN req.polygons : Len(req.polygons[j]) >= 3}}

\* The base-graph nodes whose coordinate is strictly inside some valid
\* exclusion polygon of the request.
InsideSomeExclusion(req) ==
    {n \in BaseGraph.nodes \cap IndexNodes(node_points_base) :
        \E poly \in ValidExclusions(req) : StrictlyInside(poly, PointOf(node_points_base, n))}

\* The simple paths of G that extend p to target.
RECURSIVE PathsFrom(_, _, _)
PathsFrom(G, p, target) ==
    IF p[Len(p)] = target THEN {p}
    ELSE UNION {PathsFrom(G, Append(p, v), target) :
                  v \in Neighbors(G, p[Len(p)]) \ Range(p)}

SimplePaths(G, source, target) == PathsFrom(G, <<source>>, target)

RECURSIVE PathWeight(_, _)
PathWeight(G, p) ==
    IF Len(p) <= 1 THEN 0
    ELSE G.weight[{p[1], p[2]}] + PathWeight(G, Tail(p))

Connected(G, source, target) == SimplePaths(G, source, target) # {}

\* The least weight of a path from source to target (which are connected).
MinCost(G, source, target) ==
    LET ws == {PathWeight(G, p) : p \in SimplePaths(G, source, target)}
    IN  CHOOSE w \in ws : \A v \in ws : w <= v

\* The indices of the request's safe zones that are valid (3 or more
\* vertices), have a representative node and whose representative node is
\* reachable from the start node in the working graph.
Rep(k) == RepresentativeNode(request.safe_zones[k], WorkingGraph, node_points_base)
ReachableZones ==
    {k \in DOMAIN request.safe_zones :
        /\ Len(request.safe_zones[k]) >= 3
        /\ Rep(k) # NoNode
        /\ Connected(WorkingGraph, start_node, Rep(k))}

\* The zone loop and the final step of the call have run.
SearchDone == Answered /\ start_node # NoNode /\ request.safe_zones # <<>>

\* C1: a request with zero safe zones (graph loaded) is answered 400, and
\* no graph copy, pruning or nearest-node resolution is done for it.
C1_ZeroSafeZonesRejectedFirst ==
    (Answered /\ ~Unloaded /\ request.safe_zones = <<>>) =>
        /\ response.status = 400
        /\ Range(work) \cap {"copy", "prune", "nearest"} = {}

\* C2: while the base graph, the coordinate index or a transformer is
\* unloaded, a request is answered 503 and no step of the computation
\* (reprojection, copy, pruning, nearest node, search) is performed.
C2_NotLoadedAnswers503 ==
    (phase = "serving" /\ Unloaded) =>
        /\ pc \in {"idle", "done"}
        /\ work = <<>>
        /\ start_proj = <<>>
        /\ G_temp = NoNode
        /\ heap[TempObj] = None
        /\ (Answered => response.status = 503)

C2_Witness ==
    phase = "serving" /\ Unloaded /\ Answered /\ response.status = 503

\* C3: the nodes removed from the working graph are exactly the base-graph
\* nodes strictly inside at least one exclusion polygon with 3 or more
\* vertices.
C3_RemovedExactlyInside ==
    Pruned =>
        /\ BaseGraph.nodes \ WorkingGraph.nodes = InsideSomeExclusion(request)
        /\ WorkingGraph.nodes \subseteq BaseGraph.nodes
        /\ nodes_to_remove = InsideSomeExclusion(request)

\* A node on a polygon's boundary stays while others are removed.
C3_Witness ==
    /\ pc = "start"
    /\ nodes_to_remove # {}
    /\ \E n \in WorkingGraph.nodes \cap IndexNodes(node_points_base) :
        \E poly \in ValidExclusions(request) :
            OnBoundary(poly, PointOf(node_points_base, n))

\* C4: no node of a returned path is strictly inside a valid exclusion
\* polygon of the request.
C4_PathAvoidsExclusions ==
    (Answered /\ response.path_found) =>
        /\ Range(path_nodes) \cap InsideSomeExclusion(request) = {}
        /\ \A c \in Range(response.path) :
              \A poly \in ValidExclusions(request) :
                  ~StrictlyInside(poly, transform_to_metric(c[1], c[2]))

\* A path of three nodes or more is returned while some node is excluded.
C4_Witness ==
    /\ Answered
    /\ response.path_found
    /\ nodes_to_remove # {}
    /\ Len(path_nodes) >= 3

\* C5: once loaded, the base graph and the coordinate index stay what the
\* artifact held, whatever requests are handled.
C5_BaseGraphUnchanged ==
    (phase = "serving" /\ ~Unloaded) =>
        /\ G_base = BaseObj
        /\ heap[BaseObj] = artifact.graph
        /\ node_points_base = artifact.node_points

\* A request that removed nodes from its copy has been answered.
C5_Witness ==
    /\ Answered
    /\ nodes_to_remove # {}
    /\ WorkingGraph # BaseGraph
    /\ heap[BaseObj] = artifact.graph

\* C6: among the representative nodes of the valid safe zones that are
\* reachable from the start node in the working graph, the chosen target
\* has the least shortest-path cost, and of several zones at that cost the
\* earliest in request order gives the target.
C6_NearestTargetFirstOnTies ==
    (SearchDone /\ ReachableZones # {}) =>
        LET best == CHOOSE k \in ReachableZones :
                        \A j \in ReachableZones :
                            \/ MinCost(WorkingGraph, start_node, Rep(k))
                                 < MinCost(WorkingGraph, start_node, Rep(j))
                            \/ /\ MinCost(WorkingGraph, start_node, Rep(k))
                                    = MinCost(WorkingGraph, start_node, Rep(j))
                               /\ k <= j
        IN  /\ final_target_node = Rep(best)
            /\ shortest_path_len = MinCost(WorkingGraph, start_node, Rep(best))

\* Two zones with different representative nodes at the same least cost: the
\* earlier one is chosen.
C6_Witness ==
    /\ SearchDone
    /\ \E j, k \in ReachableZones :
        /\ j < k
        /\ Rep(j) # Rep(k)
        /\ MinCost(WorkingGraph, start_node, Rep(j)) = MinCost(WorkingGraph, start_node, Rep(k))
        /\ final_target_node = Rep(j)
        /\ response.path_found

C8_FoundIffReachable ==
    SearchDone =>
        /\ response.status = 200
        /\ response.path_found <=> (ReachableZones # {})
        /\ ~response.path_found => (response.message.text # "" /\ response.path = <<>>)

\* The exclusions cut every route: B and D are removed, C is a zone's
\* representative node and is not reachable from A.
C8_Witness ==
    /\ SearchDone
    /\ nodes_to_remove = {"B", "D"}
    /\ start_node = "A"
    /\ \E k \in DOMAIN request.safe_zones :
          Len(request.safe_zones[k]) >= 3 /\ Rep(k) = "C"
    /\ response.status = 200
    /\ ~response.path_found

\* The points the handler can query the resolver with: the reprojected start
\* points and the centroids of the valid safe zones.
QueryPoints ==
    {Point(transform_to_metric(sp[1], sp[2])) : sp \in StartPoints}
        \cup {Centroid(ToMetric(z)) : z \in {y \in SafeZones : Len(y) >= 3}}

\* Position of a node in the iteration order of the index.
IndexPos(np, node) == CHOOSE k \in DOMAIN np.items : np.items[k][1] = node

\* The indexed nodes of the view.
Candidates == IndexNodes(node_points_base) \cap WorkingGraph.nodes

\* C9: get_nearest_node_api returns only nodes of the view it is given, and
\* returns none exactly when no indexed node is in the view.
C9_NearestIsInView ==
    HasWorkingGraph =>
        /\ \A q \in QueryPoints :
              LET r == get_nearest_node_api(WorkingGraph, q, node_points_base)
              IN  /\ r # NoNode => r \in Candidates
                  /\ r = NoNode <=> Candidates = {}
        /\ (Pruned /\ start_node # NoNode) => start_node \in WorkingGraph.nodes
        /\ final_target_node # NoNode => final_target_node \in WorkingGraph.nodes
        /\ (Answered /\ start_node = NoNode) => Candidates = {}

\* An indexed node that is not in the view is strictly nearer to the start
\* point than the node returned.
C9_Witness ==
    /\ pc = "zones"
    /\ \E n \in IndexNodes(node_points_base) \ WorkingGraph.nodes :
          Distance(Point(start_proj), PointOf(node_points_base, n))
              < Distance(Point(start_proj), PointOf(node_points_base, start_node))

\* C10: no node of the view is strictly closer to the query point than the
\* node returned, and of the nodes at the least distance the first in the
\* index's iteration order is returned.
C10_NearestFirstInOrder ==
    HasWorkingGraph =>
        /\ \A q \in QueryPoints :
              LET r == get_nearest_node_api(WorkingGraph, q, node_points_base)
              IN  r # NoNode =>
                    \A n \in Candidates :
                        \/ Distance(q, PointOf(node_points_base, r))
                             < Distance(q, PointOf(node_points_base, n))
                        \/ /\ Distance(q, PointOf(node_points_base, r))
                                = Distance(q, PointOf(node_points_base, n))
                           /\ IndexPos(node_points_base, r) <= IndexPos(node_points_base, n)
        /\ (pc = "zones") =>
              start_node = get_nearest_node_api(WorkingGraph, Point(start_proj), node_points_base)

\* Two nodes of the view at the same least distance from the start point: the
\* one the index lists first is the start node.
C10_Witness ==
    /\ pc = "zones"
    /\ \E n \in Candidates :
        /\ n # start_node
        /\ Distance(Point(start_proj), PointOf(node_points_base, n))
              = Distance(Point(start_proj), PointOf(node_points_base, start_node))
        /\ IndexPos(node_points_base, start_node) < IndexPos(node_points_base, n)

\* C15: with an empty polygons list the working graph has the node set, the
\* edge set, the weights and the node and edge counts of the base graph.
C15_NoPolygonsSameGraph ==
    (Pruned /\ request.polygons = <<>>) =>
        /\ WorkingGraph.nodes = BaseGraph.nodes
        /\ Edges(WorkingGraph) = Edges(BaseGraph)
        /\ \A e \in Edges(BaseGraph) : WorkingGraph.weight[e] = BaseGraph.weight[e]
        /\ Cardinality(WorkingGraph.nodes) = Cardinality(BaseGraph.nodes)
        /\ Cardinality(Edges(WorkingGraph)) = Cardinality(Edges(BaseGraph))
        /\ nodes_to_remove = {}

\* A request without polygons was searched on the five-node graph and a
\* path that uses its edges was found.
C15_Witness ==
    /\ Answered
    /\ request.polygons = <<>>
    /\ Cardinality(BaseGraph.nodes) = 5
    /\ Cardinality(Edges(WorkingGraph)) = 6
    /\ response.path_found
    /\ Len(path_nodes) >= 2

\* The pickle file is missing, unreadable or structurally invalid, or the
\* transformers cannot be created.
BadArtifact ==
    \/ ~artifact.exists
    \/ ~artifact.readable
    \/ ~({"graph", "node_points", "original_edges"} \subseteq artifact.keys)
    \/ artifact.graph = None
    \/ artifact.node_points = None
    \/ ~proj_ok

\* C16: with a bad artifact (file missing, unreadable, a required key
\* absent, the graph or the node_points entry null) or without transformers,
\* the process ends at startup and never serves find_path requests.
C16_BadArtifactNeverServes ==
    BadArtifact => phase # "serving"

\* The number of entries x in the sequence s.
Count(s, x) == Cardinality({k \in DOMAIN s : s[k] = x})

\* n is a node of the view at the least distance from the point q.
NearestIn(q, n) ==
    /\ n \in Candidates
    /\ \A m \in Candidates :
          Distance(q, PointOf(node_points_base, n))
              <= Distance(q, PointOf(node_points_base, m))

\* C19: the start node is resolved on the working graph after the exclusion
\* step (it is a nearest node of the pruned view, never an excluded one), and
\* when there is none the call answers a 200 with path_found = FALSE without
\* any target resolution or path search.
C19_StartResolvedAfterPruning ==
    (G_temp # NoNode) =>
        /\ \A k \in DOMAIN work :
              work[k] = "nearest" =>
                  /\ \E j \in 1..(k - 1) : work[j] = "copy"
                  /\ request.polygons # <<>> => \E j \in 1..(k - 1) : work[j] = "prune"
        /\ (pc \in {"zones", "zone", "done"} /\ start_node # NoNode) =>
              /\ start_node \notin InsideSomeExclusion(request)
              /\ NearestIn(Point(start_proj), start_node)
        /\ (Answered /\ start_node = NoNode) =>
              /\ Candidates = {}
              /\ response.status = 200
              /\ ~response.path_found
              /\ response.path = <<>>
              /\ final_target_node = NoNode
              /\ zi = 0
              /\ Count(work, "nearest") = 1
              /\ Range(work) \cap {"has_path", "length", "path"} = {}

\* Every indexed node is excluded and the request, which has a valid safe
\* zone, is answered without a start node.
C19_Witness ==
    /\ Answered
    /\ G_temp # NoNode
    /\ start_node = NoNode
    /\ nodes_to_remove # {}
    /\ \E k \in DOMAIN request.safe_zones : Len(request.safe_zones[k]) >= 3
    /\ response.status = 200

\* The valid safe zones among those the loop has passed.
ZonesPassed ==
    {k \in 1..(zi - 1) : k <= Len(request.safe_zones) /\ Len(request.safe_zones[k]) >= 3}

ExcludedByPolygons(J) ==
    {n \in BaseGraph.nodes \cap IndexNodes(node_points_base) :
        \E k \in J :
            /\ Len(request.polygons[k]) >= 3
            /\ StrictlyInside(ToMetric(request.polygons[k]), PointOf(node_points_base, n))}

\* The graph G without the nodes of E and their edges.
Without(G, E) ==
    [nodes |-> G.nodes \ E,
     weight |-> [e \in {f \in DOMAIN G.weight : f \cap E = {}} |-> G.weight[e]]]

\* C14: the working graph is the base graph without the nodes E2 the
\* request's polygons exclude; for the nodes E1 excluded by any sub-list of
\* the polygons (E1 is a subset of E2) and any two nodes s and t of the
\* working graph with t reachable from s in it, the shortest-path cost in
\* the working graph is at least the cost in the base graph without E1.
C14_CostMonotoneInExclusions ==
    (pc = "start") =>
        /\ WorkingGraph = Without(BaseGraph, ExcludedByPolygons(DOMAIN request.polygons))
        /\ \A J \in SUBSET (DOMAIN request.polygons) :
              LET G1 == Without(BaseGraph, ExcludedByPolygons(J))
              IN  /\ ExcludedByPolygons(J) \subseteq ExcludedByPolygons(DOMAIN request.polygons)
                  /\ \A s, t \in WorkingGraph.nodes :
                        Connected(WorkingGraph, s, t) =>
                            /\ Connected(G1, s, t)
                            /\ shortest_path_length(WorkingGraph, s, t)
                                 >= shortest_path_length(G1, s, t)

\* Excluding B, on top of nothing, makes the way from A to C strictly
\* costlier: 3 through E and D where it was 2.
C14_Witness ==
    /\ pc = "start"
    /\ nodes_to_remove = {"B"}
    /\ {"A", "C"} \subseteq WorkingGraph.nodes
    /\ Connected(WorkingGraph, "A", "C")
    /\ shortest_path_length(WorkingGraph, "A", "C") = 3
    /\ shortest_path_length(BaseGraph, "A", "C") = 2

\* C17: an exceptional condition inside find_path other than the two
\* documented skips (here: the cost query of a candidate raises) reaches the
\* handler's outer boundary and is answered as a server error.
C17_FaultsPropagate ==
    (Answered /\ "fault" \in Range(work)) => response.status = 500

\* The call in progress has the request of the call before without one of
\* its exclusion polygons of fewer than 3 vertices.
PolygonDropped ==
    /\ prev # None
    /\ \E k \in DOMAIN prev.request.polygons :
          /\ Len(prev.request.polygons[k]) < 3
          /\ request = [prev.request EXCEPT !.polygons = RemoveAt(prev.request.polygons, k)]

\* The call in progress has the request of the call before without one of
\* its safe zones of fewer than 3 vertices.
ZoneDropped ==
    /\ prev # None
    /\ \E k \in DOMAIN prev.request.safe_zones :
          /\ Len(prev.request.safe_zones[k]) < 3
          /\ request = [prev.request EXCEPT !.safe_zones = RemoveAt(prev.request.safe_zones, k)]

\* The answered call and the call before have the same working graph, start
\* node, target node, status, path_found and path.
SameResult ==
    /\ response.status = prev.response.status
    /\ response.path_found = prev.response.path_found
    /\ response.path = prev.response.path
    /\ start_node = prev.start_node
    /\ final_target_node = prev.final_target_node
    /\ prev.graph = (IF G_temp = NoNode THEN None ELSE heap[G_temp])

\* C11: a request with an exclusion polygon of fewer than 3 vertices and
\* the same request without that polygon have the same working graph, start
\* node, target node and response (status, path_found, path).
C11_DegeneratePolygonChangesNothing ==
    (Answered /\ PolygonDropped) => SameResult

\* Both requests exclude nodes with another polygon and both are answered
\* with the same path of three nodes or more.
C11_Witness ==
    /\ Answered
    /\ PolygonDropped
    /\ nodes_to_remove # {}
    /\ response.status = 200
    /\ response.path_found
    /\ Len(response.path) >= 3
    /\ prev.response.path = response.path

\* C12 as stated: a request with a safe zone of fewer than 3 vertices and
\* the same request without that zone have the same result, also when that
\* zone is the only one.
C12_DegenerateZoneChangesNothing ==
    (Answered /\ ZoneDropped) => SameResult

\* C12, amended: the two requests have the same result whenever the request
\* without the zone still has a safe zone or no start node is found; when
\* the zone is the only one and a start node is found, the request with it
\* is answered 200 with path_found = FALSE and the request without it is
\* answered with an error.
C12_DegenerateZoneSkipped ==
    (Answered /\ ZoneDropped) =>
        /\ (request.safe_zones # <<>> \/ start_node = NoNode) => SameResult
        /\ (request.safe_zones = <<>> /\ start_node # NoNode) =>
              /\ prev.response.status = 200
              /\ ~prev.response.path_found
              /\ prev.final_target_node = NoNode
              /\ response.status >= 400

\* A request with a valid zone and a 2-vertex zone, and the request without
\* the latter, are both answered with the same path.
C12_Witness ==
    /\ Answered
    /\ ZoneDropped
    /\ request.safe_zones # <<>>
    /\ response.path_found
    /\ Len(response.path) >= 2
    /\ prev.response.path = response.path
    /\ prev.final_target_node = final_target_node

\* The call in progress has the request of the call before.
Repeated == prev # None /\ request = prev.request

\* C13 as stated: two calls with the same request get the same response,
\* message included.
C13_SameRequestSameResponse ==
    (Answered /\ Repeated) => response = prev.response

\* The values formatted into a message, the elapsed time left out.
Timeless(message) ==
    [k \in (DOMAIN message.values) \ {"seconds"} |-> message.values[k]]

\* C13, amended: two calls with the same request, whatever call was
\* answered between them, get the same status, path_found and path, search
\* the same working graph, and get the same message up to the elapsed time
\* written in it.
C13_SameRequestSameResult ==
    (Answered /\ Repeated) =>
        /\ SameResult
        /\ response.message.text = prev.response.message.text
        /\ Timeless(response.message) = Timeless(prev.response.message)

\* The same request is answered twice with the same path and two messages
\* that differ in the elapsed time.
C13_Witness ==
    /\ Answered
    /\ Repeated
    /\ response.path_found
    /\ nodes_to_remove # {}
    /\ response.path = prev.response.path
    /\ response.message # prev.response.message

\* The base-graph nodes strictly inside a valid exclusion polygon of the
\* second call's request.
ExcludedByOther ==
    {n \in BaseGraph.nodes \cap IndexNodes(node_points_base) :
        \E k \in DOMAIN other.request.polygons :
            /\ Len(other.request.polygons[k]) >= 3
            /\ StrictlyInside(ToMetric(other.request.polygons[k]), PointOf(node_points_base, n))}

\* C18: with two calls in progress, their steps in any order, each call's
\* working graph is its own object and is the base graph without the nodes
\* that call's own polygons exclude, the base graph stays what was loaded,
\* and the observed call gets the result it got when it ran alone.
C18_ConcurrentCallsIsolated ==
    /\ Pruned =>
          /\ G_temp # G_base
          /\ WorkingGraph = Without(BaseGraph, ExcludedByPolygons(DOMAIN request.polygons))
          /\ BaseGraph = artifact.graph
    /\ (other # None /\ other.G_temp # NoNode) =>
          /\ other.G_temp # G_base
          /\ other.G_temp # G_temp
          /\ other.pc = "search" =>
                heap[other.G_temp] = Without(BaseGraph, ExcludedByOther)
    /\ (Answered /\ Repeated) => SameResult

\* The observed call is answered, with the path it got when alone, while the
\* second call holds a graph from which it has removed a node of that path.
C18_Witness ==
    /\ Answered
    /\ Repeated
    /\ response.path_found
    /\ response.path = prev.response.path
    /\ other # None
    /\ other.pc = "search"
    /\ ExcludedByOther \cap Range(path_nodes) # {}
    /\ ExcludedByOther # nodes_to_remove

\* The valid zones passed by the loop whose representative node exists and
\* is not the start node: the candidates that need a search.
ZonesSearched ==
    {k \in ZonesPassed : Rep(k) \notin {NoNode, start_node}}

\* C21: a call computes the node path at most once, as its last step, after
\* the loop has passed every safe zone, and for the candidate of least cost;
\* for the candidates the loop passes only reachability and cost are
\* queried.
C21_PathComputedOnceForWinner ==
    (G_temp # NoNode) =>
        /\ Count(work, "path") <= 1
        /\ ~Answered => (path_nodes = <<>> /\ "path" \notin Range(work))
        /\ (pc = "zone" /\ start_node # NoNode) =>
              Count(work, "length") = Cardinality({k \in ZonesSearched :
                                                     Connected(WorkingGraph, start_node, Rep(k))})
        /\ "path" \in Range(work) =>
              /\ work[Len(work)] = "path"
              /\ zi = Len(request.safe_zones) + 1
              /\ response.path_found
              /\ path_nodes[1] = start_node
              /\ path_nodes[Len(path_nodes)] = final_target_node
              /\ \A k \in ReachableZones :
                    MinCost(WorkingGraph, start_node, final_target_node)
                        <= MinCost(WorkingGraph, start_node, Rep(k))

\* Two candidates were searched for their cost, the second one is the
\* cheaper, and one path was computed, to the second.
C21_Witness ==
    /\ Answered
    /\ Count(work, "length") = 2
    /\ Count(work, "path") = 1
    /\ Len(request.safe_zones) = 2
    /\ final_target_node = Rep(2)
    /\ Rep(1) # Rep(2)
    /\ Len(path_nodes) >= 2

\* C22: a valid zone whose representative node is the start node costs no
\* has_path and no cost query; the target is then the start node at cost 0
\* (the first zone at cost 0 wins), and the answer is a 200 with
\* path_found = TRUE and a path of the one coordinate pair of the start node.
C22_StartIsTargetShortCircuit ==
    (pc \in {"zone", "done"} /\ G_temp # NoNode /\ start_node # NoNode
       /\ request.safe_zones # <<>>) =>
        /\ Count(work, "has_path") = Cardinality(ZonesSearched)
        /\ Count(work, "length") <= Cardinality(ZonesSearched)
        /\ (\E k \in ZonesPassed : Rep(k) = start_node) =>
              /\ final_target_node = start_node
              /\ shortest_path_len = 0
              /\ Answered =>
                    /\ response.status = 200
                    /\ response.path_found
                    /\ path_nodes = <<start_node>>
                    /\ Len(response.path) = 1
                    /\ response.path[1]
                         = transform_to_wgs84(PointOf(node_points_base, start_node)[1],
                                              PointOf(node_points_base, start_node)[2])

\* The second zone's node is the start node, the first zone's node is
\* another, reachable one: one search was made and the start node wins.
C22_Witness ==
    /\ Answered
    /\ G_temp # NoNode
    /\ Len(request.safe_zones) = 2
    /\ Cardinality(ZonesPassed) = 2
    /\ Rep(1) # start_node
    /\ Rep(2) = start_node
    /\ Count(work, "length") = 1
    /\ final_target_node = start_node
    /\ Len(response.path) = 1

\* C23: a returned path has one coordinate pair per node of the node path,
\* in the same order: no path node is left out and none is added.
C23_OnePairPerPathNode ==
    (Answered /\ response.path_found) =>
        /\ Len(response.path) = Len(path_nodes)
        /\ \A k \in DOMAIN path_nodes :
              /\ path_nodes[k] \in IndexNodes(node_points_base)
              /\ response.path[k]
                   = transform_to_wgs84(PointOf(node_points_base, path_nodes[k])[1],
                                        PointOf(node_points_base, path_nodes[k])[2])

\* The call in progress has the request of the call before with the same
\* exclusion polygons listed in another order or another number of times.
PolygonsReordered ==
    /\ prev # None
    /\ request # prev.request
    /\ request = [prev.request EXCEPT !.polygons = request.polygons]
    /\ Range(request.polygons) = Range(prev.request.polygons)

\* C24: two requests that differ only in the order of their exclusion
\* polygons, or in how many times a polygon is listed, remove the same
\* nodes and have the same working graph, start node, target node and
\* response (status, path_found, path).
C24_PolygonOrderIrrelevant ==
    (Answered /\ PolygonsReordered) =>
        /\ SameResult
        /\ prev.graph # None =>
              /\ nodes_to_remove = BaseGraph.nodes \ prev.graph.nodes
              /\ nodes_to_remove = ExcludedByPolygons(DOMAIN request.polygons)

\* Two valid polygons that exclude different nodes were sent in one order
\* and then in the other, and both calls were answered with the same path
\* over what is left of the graph.
C24_Witness ==
    /\ Answered
    /\ PolygonsReordered
    /\ Len(request.polygons) = 2
    /\ G_temp # NoNode
    /\ Len(prev.request.polygons) = 2
    /\ request.polygons[1] = prev.request.polygons[2]
    /\ request.polygons[2] = prev.request.polygons[1]
    /\ ExcludedByPolygons({1}) # ExcludedByPolygons({2})
    /\ ExcludedByPolygons({1}) # {}
    /\ ExcludedByPolygons({2}) # {}
    /\ nodes_to_remove = ExcludedByPolygons({1, 2})
    /\ response.status = 200
    /\ response.path_found
    /\ response.path = prev.response.path

\* The answer of api_find_safe_routes carries the two route lists.
CarriesRoutes == "safe_routes" \in DOMAIN reply

\* The safe routes of the answer were found by the waypoint or the
\* last-resort search.
FromSearch ==
    \E k \in DOMAIN reply.safe_routes :
        reply.safe_routes[k].properties.route_type \in {"waypoint", "focused"}

\* C25: in every answer of api_find_safe_routes that carries route lists,
\* each route of safe_routes is a route of all_routes flagged is_safe, each
\* route of all_routes that is not in safe_routes is flagged not is_safe,
\* and safe routes found by the waypoint or last-resort search are at most
\* 3, the third being the last route the search looked at.
C25_SafeRoutesWithinAllRoutes ==
    CarriesRoutes =>
        /\ \A k \in DOMAIN reply.safe_routes :
              /\ reply.safe_routes[k] \in Range(reply.all_routes)
              /\ reply.safe_routes[k].properties.is_safe
        /\ \A k \in DOMAIN reply.all_routes :
              reply.all_routes[k] \notin Range(reply.safe_routes) =>
                  ~reply.all_routes[k].properties.is_safe
        /\ FromSearch =>
              /\ Len(reply.safe_routes) <= 3
              /\ Len(reply.safe_routes) = 3 =>
                    reply.all_routes[Len(reply.all_routes)] = reply.safe_routes[3]

\* The waypoint search went through three combinations and stopped at its
\* third safe route; the answer also lists routes that are not safe.
C25_Witness ==
    /\ CarriesRoutes
    /\ FromSearch
    /\ Len(reply.safe_routes) = 3
    /\ Len(reply.all_routes) >= 5
    /\ wp_idx = 3
    /\ \E k \in DOMAIN reply.all_routes : ~reply.all_routes[k].properties.is_safe

====
